---- MODULE Spec2Model ----
(***************************************************************************)
(* A model of src/SESSION_AWARE_ORCHESTRATION_SYSTEM.py: the SessionManager *)
(* registry with its lock, the callers of its methods, the wall clock, the  *)
(* SessionDatabase table, the SessionOrchestrator's start and shutdown, and *)
(* the SessionWebSocketServer's client set with its sweep-and-broadcast     *)
(* task.                                                                    *)
(*                                                                         *)
(* Session objects live in a heap and the registry maps a session_id to a  *)
(* reference, as the Python dict does: a list returned by get_all_sessions *)
(* holds references to the very objects the registry holds.                *)
(***************************************************************************)
EXTENDS Integers, Sequences, FiniteSets, TLC

(***************************************************************************)
(* Bounds of the model.                                                    *)
(***************************************************************************)
\* the clock of a caller's run advances MaxTime times
MaxTime == 2
\* the seconds by which the clock advances between two calls
TickSeconds == 30
\* the number of Session objects that can be alive at once
MaxObjs == 4
\* the sweep task's sleep ends MaxSweeps times
MaxSweeps == 7
\* the websockets that connect
NumClients == 3
\* the test sessions of the menu that exist at once, in memory or in the table
MaxTests == 1

SessionIds == {"s1", "s2"}
Threads == {"t1", "t2"}
Refs == 1..MaxObjs
\* a websocket, named by the slot it hashes to in the set of clients
ClientIds == 1..NumClients

(***************************************************************************)
(* Python values: a type tag and the value's literal.                      *)
(***************************************************************************)
PyStr(s) == [ty |-> "str", v |-> s]
PyFloat(s) == [ty |-> "float", v |-> s]
PyInt(s) == [ty |-> "int", v |-> s]
PyDict(s) == [ty |-> "dict", v |-> s]
\* a dict's content: its values by key
NoItems == <<>>

UserIds == {PyStr("u1"), PyStr("u2")}

\* the fields of the Session dataclass
SessionFields ==
    {"session_id", "user_id", "status", "current_task", "progress",
     "last_activity", "resources_used"}

\* the attributes every instance has of its class (those of object that a
\* setattr can reach): no field of Session has a default, so the class has no
\* attribute of a field's name
ClassAttrs == {"__dict__", "__class__"}

\* hasattr(session, key): an attribute of the instance, or of its class
HasAttr(session, key) == key \in DOMAIN session \cup ClassAttrs

\* Session(session_id=..., user_id=..., status='active', ...) of register_session
NewSession(session_id, user_id, t) ==
    [session_id |-> session_id, user_id |-> user_id, status |-> PyStr("active"),
     current_task |-> PyStr("initializing"), progress |-> PyFloat("0.0"),
     last_activity |-> t, resources_used |-> PyDict(NoItems)]

(***************************************************************************)
(* Calls and their results.                                                *)
(***************************************************************************)
\* **kwargs: the <<key, value>> pairs of the mapping, in its order
NoKw == <<>>
KwKeys(kwargs) == {kwargs[i][1] : i \in DOMAIN kwargs}
KwGet(kwargs, key) == kwargs[CHOOSE i \in DOMAIN kwargs : kwargs[i][1] = key][2]
\* a call: the method, its arguments and, of a sweep, the clock when the
\* caller made it (at)
NoCall == [op |-> "none", sid |-> "", uid |-> PyStr(""), kw |-> NoKw, timeout |-> 0,
           at |-> 0]
CallRegister(sid, uid) == [NoCall EXCEPT !.op = "register_session", !.sid = sid, !.uid = uid]
CallUpdate(sid, kw) == [NoCall EXCEPT !.op = "update_session", !.sid = sid, !.kw = kw]
CallGet(sid) == [NoCall EXCEPT !.op = "get_session_status", !.sid = sid]
CallGetAll == [NoCall EXCEPT !.op = "get_all_sessions"]
CallCleanup(timeout) == [NoCall EXCEPT !.op = "cleanup_inactive_sessions", !.timeout = timeout]
\* call c as made when the clock reads t
Called(c, t) == IF c.op = "cleanup_inactive_sessions" THEN [c EXCEPT !.at = t] ELSE c

\* a returned value: its type, the bool it is, the Session objects it refers to
NoRet == [kind |-> "pending", b |-> FALSE, objs |-> {}]
RetBool(b) == [kind |-> "bool", b |-> b, objs |-> {}]
RetNone == [kind |-> "None", b |-> FALSE, objs |-> {}]
RetObj(r) == [kind |-> "Session", b |-> FALSE, objs |-> {r}]
RetList(rs) == [kind |-> "list", b |-> FALSE, objs |-> rs]
\* the call raised exception e
RetRaise(e) == [kind |-> e, b |-> FALSE, objs |-> {}]
\* the kinds of a value that was returned
Returned == {"bool", "None", "Session", "list"}

\* no iteration in progress
NoIter == [used |-> 0, pos |-> 0]

\* the frames that handle_message sends
NoFrame == [type |-> "none", success |-> FALSE, session_id |-> "", sessions |-> <<>>,
            message |-> ""]
RegistrationResponse(success, session_id) ==
    [NoFrame EXCEPT !.type = "registration_response", !.success = success,
                    !.session_id = session_id]
UpdateResponse(success, session_id) ==
    [NoFrame EXCEPT !.type = "update_response", !.success = success,
                    !.session_id = session_id]
SessionsData(sessions) == [NoFrame EXCEPT !.type = "sessions_data", !.sessions = sessions]
ErrorFrame(message) == [NoFrame EXCEPT !.type = "error", !.message = message]

\* json.loads(message): text that is no JSON, a JSON array, or a JSON object
\* with its command (none: ""), session_id, user_id and updates
NoMessage == [form |-> "none", command |-> "", session_id |-> "", user_id |-> PyStr(""),
              updates |-> NoKw]
Garbage == [NoMessage EXCEPT !.form = "garbage"]
JsonArray == [NoMessage EXCEPT !.form = "array"]
JsonObject(command, session_id, user_id, updates) ==
    [form |-> "object", command |-> command, session_id |-> session_id,
     user_id |-> user_id, updates |-> updates]

\* a handler that has received nothing: the message, the frame that answers
\* it, the times the frame was delivered
NoReply == [of |-> NoMessage, frame |-> NoFrame, n |-> 0]

VARIABLES
    active_sessions,   \* SessionManager.active_sessions: session_id -> reference
    heap,              \* the Session objects, by reference
    session_lock,      \* SessionManager.session_lock: its holder, or "free"
    now,               \* datetime.now(), in seconds
    pc,                \* each caller: "idle", "wait" (at the with), "held" (inside it)
    call,              \* each caller's current or last call
    ret,               \* what the caller's last call returned
    balance,           \* register_session calls that returned True, less the
                       \* sessions deleted by cleanup_inactive_sessions
    phase,             \* the process: "ready" (constructed, or at the menu),
                       \* "serving" (in asyncio.run), "exited"
    mode,              \* how main() runs it: "main" or "interactive"
    db,                \* the sessions table of session_data.db, by session_id
    storage,           \* session_data.db can be opened, read and written
                       \* ("ok"), or not ("down")
    clients,           \* SessionWebSocketServer.clients
    conn,              \* each websocket's connection: "none", "open", "closed"
    hpc,               \* each register_client task: "none", "recv" (waiting for
                       \* a message), "send" (in handle_message's await
                       \* websocket.send)
    reply,             \* each handler's reply to its last message: the frame,
                       \* and how many times it was delivered
    bpc,               \* the cleanup_sessions task: "off", "sleep", "iter" (at the
                       \* for of broadcast_update), "send" (in await client.send),
                       \* "dead" (ended by an exception)
    iter,              \* the iterator of "for client in self.clients"
    cur,               \* the client of the send in progress
    disconnected_clients,  \* broadcast_update's disconnected_clients
    got,               \* the clients the broadcast in progress was sent to
    audience           \* the clients connected since the broadcast began

storeVars == <<active_sessions, heap, session_lock, now>>
callerVars == <<pc, call, ret>>
lifeVars == <<phase, mode, db, storage>>
hubVars == <<clients, conn, hpc, reply, bpc, iter, cur, disconnected_clients, got,
             audience>>
vars == <<active_sessions, heap, session_lock, now, pc, call, ret, balance,
          phase, mode, db, storage,
          clients, conn, hpc, reply, bpc, iter, cur, disconnected_clients, got,
          audience>>

(***************************************************************************)
(* The heap.                                                               *)
(***************************************************************************)
Registered == DOMAIN active_sessions
Range(f) == {f[x] : x \in DOMAIN f}

\* the objects some reference reaches: the registry's and the callers' results
Reachable(reg, rets) == Range(reg) \cup UNION {rets[t].objs : t \in Threads}

\* reference counting: an object no reference reaches is freed
Collect(h, reg, rets) ==
    [r \in DOMAIN h \cap Reachable(reg, rets) |-> h[r]]

\* the references no object has
FreeRefs == Refs \ DOMAIN heap

\* the reference a new object gets
NewRef(h) == CHOOSE r \in Refs \ DOMAIN h : \A q \in Refs \ DOMAIN h : r <= q

(***************************************************************************)
(* SessionManager: the body of each method, run under session_lock.        *)
(* Each gives the registry, the heap and the returned value.               *)
(***************************************************************************)
Outcome(reg, h, r) == [reg |-> reg, heap |-> h, ret |-> r]

\* an insert that rebuilds the registry with the new record alone
Insert_rebuild(reg, h, session_id, user_id, t) ==
    Outcome((session_id :> NewRef(h)),
            (NewRef(h) :> NewSession(session_id, user_id, t)) @@ h,
            RetBool(TRUE))

\* the registry with session_id bound to a new Session object
Insert(reg, h, session_id, user_id, t) ==
    Outcome((session_id :> NewRef(h)) @@ reg,
            (NewRef(h) :> NewSession(session_id, user_id, t)) @@ h,
            RetBool(TRUE))

\* a register_session that overwrites the record of a registered id
register_session_overwrite(reg, h, session_id, user_id, t) ==
    Insert(reg, h, session_id, user_id, t)

register_session(reg, h, session_id, user_id, t) ==
    IF session_id \notin DOMAIN reg
    THEN Insert(reg, h, session_id, user_id, t)
    ELSE Outcome(reg, h, RetBool(FALSE))

\* no exception
NoExc == ""

\* setattr(session, key, value) raises: __class__ must be set to a class and
\* __dict__ to a dictionary, and a value of the updates mapping is never a class
SetAttrRaises(key, value) ==
    \/ key = "__class__"
    \/ key = "__dict__" /\ value.ty # "dict"

\* setattr(session, key, value): the attribute is set; a dict set as __dict__
\* becomes the instance's attributes, in place of those it had
SetAttr(session, key, value) ==
    IF key = "__dict__" THEN value.v
    ELSE (key :> value) @@ session

\* for key, value in kwargs.items(): if hasattr(session, key): setattr(...)
\* the session as the loop leaves it, and the exception that ended it
RECURSIVE SetAttrs(_, _)
SetAttrs(session, kwargs) ==
    IF kwargs = <<>> THEN [session |-> session, exc |-> NoExc]
    ELSE LET key == Head(kwargs)[1]
             value == Head(kwargs)[2]
         IN  IF ~HasAttr(session, key) THEN SetAttrs(session, Tail(kwargs))
             ELSE IF SetAttrRaises(key, value)
                  THEN [session |-> session, exc |-> "TypeError"]
                  ELSE SetAttrs(SetAttr(session, key, value), Tail(kwargs))

\* an update that leaves last_activity as it was
Touch_stale(session, kwargs, t) == SetAttrs(session, kwargs).session

\* the loop over kwargs, then session.last_activity = datetime.now()
Touch(session, kwargs, t) ==
    ("last_activity" :> t) @@ SetAttrs(session, kwargs).session

\* an update_session that sets last_activity of every session
Updated_all(reg, h, ref, kwargs, t) ==
    IF SetAttrs(h[ref], kwargs).exc # NoExc
    THEN Outcome(reg, [h EXCEPT ![ref] = SetAttrs(h[ref], kwargs).session],
                 RetRaise(SetAttrs(h[ref], kwargs).exc))
    ELSE Outcome(reg,
                 [r \in DOMAIN h |->
                     IF r = ref THEN Touch(h[r], kwargs, t)
                     ELSE ("last_activity" :> t) @@ h[r]],
                 RetBool(TRUE))

\* the body of update_session on the session it found: an exception of the
\* loop leaves the session as the loop had made it, last_activity not set
Updated(reg, h, ref, kwargs, t) ==
    IF SetAttrs(h[ref], kwargs).exc # NoExc
    THEN Outcome(reg, [h EXCEPT ![ref] = SetAttrs(h[ref], kwargs).session],
                 RetRaise(SetAttrs(h[ref], kwargs).exc))
    ELSE Outcome(reg, [h EXCEPT ![ref] = Touch(h[ref], kwargs, t)], RetBool(TRUE))

\* a binding of **kwargs that never raises
BindRaises_never(kwargs) == FALSE

\* update_session(session_id, **kwargs) with session_id among the keys of
\* kwargs: TypeError (multiple values for argument 'session_id') at the call
BindRaises(kwargs) == "session_id" \in KwKeys(kwargs)

\* an update_session that creates the record it does not find
update_session_upsert(reg, h, session_id, kwargs, t) ==
    IF BindRaises(kwargs) THEN Outcome(reg, h, RetRaise("TypeError"))
    ELSE IF session_id \in DOMAIN reg
    THEN Updated(reg, h, reg[session_id], kwargs, t)
    ELSE Outcome(Insert(reg, h, session_id, PyStr(""), t).reg,
                 Insert(reg, h, session_id, PyStr(""), t).heap,
                 RetBool(FALSE))

update_session(reg, h, session_id, kwargs, t) ==
    IF BindRaises(kwargs) THEN Outcome(reg, h, RetRaise("TypeError"))
    ELSE IF session_id \in DOMAIN reg
    THEN Updated(reg, h, reg[session_id], kwargs, t)
    ELSE Outcome(reg, h, RetBool(FALSE))

get_session_status(reg, h, session_id) ==
    IF session_id \in DOMAIN reg
    THEN Outcome(reg, h, RetObj(reg[session_id]))
    ELSE Outcome(reg, h, RetNone)

\* list(self.active_sessions.values()): a new list of the same objects
\* (the order of the list is not modelled)
get_all_sessions(reg, h) == Outcome(reg, h, RetList(Range(reg)))

\* time_diff = (current_time - session.last_activity).total_seconds() / 60
\* time_diff > timeout_minutes: the true division by 60 as a comparison of
\* the seconds with 60 * timeout_minutes
SecondsPerMinute == 60
\* the comparison with >= for >
Inactive_inclusive(session, current_time, timeout_minutes) ==
    (current_time - session.last_activity) >= timeout_minutes * SecondsPerMinute

Inactive(session, current_time, timeout_minutes) ==
    (current_time - session.last_activity) > timeout_minutes * SecondsPerMinute

inactive_sessions(reg, h, current_time, timeout_minutes) ==
    {sid \in DOMAIN reg : Inactive(h[reg[sid]], current_time, timeout_minutes)}

\* a sweep that deletes nothing
Delete_none(reg, sids) == reg

\* for session_id in inactive_sessions: del self.active_sessions[session_id]
Delete(reg, sids) == [sid \in DOMAIN reg \ sids |-> reg[sid]]

\* a sweep that marks the inactive sessions and keeps them
cleanup_inactive_sessions_soft(reg, h, timeout_minutes, t) ==
    Outcome(reg,
            [r \in DOMAIN h |->
                IF \E sid \in inactive_sessions(reg, h, t, timeout_minutes) : reg[sid] = r
                THEN [h[r] EXCEPT !.status = PyStr("evicted")]
                ELSE h[r]],
            RetNone)

cleanup_inactive_sessions(reg, h, timeout_minutes, t) ==
    Outcome(Delete(reg, inactive_sessions(reg, h, t, timeout_minutes)), h, RetNone)

(***************************************************************************)
(* The callers of SessionManager.                                          *)
(***************************************************************************)
Pending(op) == {t \in Threads : pc[t] # "idle" /\ call[t].op = op}

\* the call raises TypeError as its arguments are bound, before the method's
\* body begins
Rejected(c) == c.op = "update_session" /\ BindRaises(c.kw)

\* a caller calls a method and reaches its "with self.session_lock", or the
\* call is rejected
Call(t, c) ==
    /\ pc[t] = "idle"
    /\ c.op = "register_session" =>
          Cardinality(FreeRefs) > Cardinality(Pending("register_session"))
    /\ pc' = [pc EXCEPT ![t] = IF Rejected(c) THEN "idle" ELSE "wait"]
    /\ call' = [call EXCEPT ![t] = Called(c, now)]
    /\ ret' = [ret EXCEPT ![t] = IF Rejected(c) THEN RetRaise("TypeError") ELSE NoRet]
    /\ heap' = Collect(heap, active_sessions, ret')
    /\ UNCHANGED <<active_sessions, session_lock, now, balance, lifeVars, hubVars>>

\* threading.Lock: acquired by one caller at a time
LockFree == session_lock = "free"

Acquire(t) ==
    /\ pc[t] = "wait"
    /\ LockFree
    /\ session_lock' = t
    /\ pc' = [pc EXCEPT ![t] = "held"]
    /\ UNCHANGED <<active_sessions, heap, now, call, ret, balance, lifeVars, hubVars>>

\* a with block that keeps the lock when its body raises
Finish_held_on_raise(t, out) ==
    /\ active_sessions' = out.reg
    /\ ret' = [ret EXCEPT ![t] = out.ret]
    /\ heap' = Collect(out.heap, out.reg, ret')
    /\ session_lock' = IF out.ret.kind \in Returned THEN "free" ELSE t
    /\ pc' = [pc EXCEPT ![t] = "idle"]
    /\ UNCHANGED <<now, call, lifeVars, hubVars>>

\* the with block ends, by a return or by an exception of its body: the
\* method's effect, its result, the lock released
Finish(t, out) ==
    /\ active_sessions' = out.reg
    /\ ret' = [ret EXCEPT ![t] = out.ret]
    /\ heap' = Collect(out.heap, out.reg, ret')
    /\ session_lock' = "free"
    /\ pc' = [pc EXCEPT ![t] = "idle"]
    /\ UNCHANGED <<now, call, lifeVars, hubVars>>

InBody(t, op) == pc[t] = "held" /\ session_lock = t /\ call[t].op = op

Register(t) ==
    /\ InBody(t, "register_session")
    /\ LET out == register_session(active_sessions, heap, call[t].sid, call[t].uid, now)
       IN  /\ Finish(t, out)
           /\ balance' = balance + (IF out.ret.b THEN 1 ELSE 0)

Update(t) ==
    /\ InBody(t, "update_session")
    /\ Finish(t, update_session(active_sessions, heap, call[t].sid, call[t].kw, now))
    /\ UNCHANGED balance

GetSessionStatus(t) ==
    /\ InBody(t, "get_session_status")
    /\ Finish(t, get_session_status(active_sessions, heap, call[t].sid))
    /\ UNCHANGED balance

GetAllSessions(t) ==
    /\ InBody(t, "get_all_sessions")
    /\ Finish(t, get_all_sessions(active_sessions, heap))
    /\ UNCHANGED balance

Cleanup(t) ==
    /\ InBody(t, "cleanup_inactive_sessions")
    /\ Finish(t, cleanup_inactive_sessions(active_sessions, heap, call[t].timeout, now))
    /\ balance' = balance
          - Cardinality(inactive_sessions(active_sessions, heap, now, call[t].timeout))

\* the wall clock advances
Tick ==
    /\ now + TickSeconds <= MaxTime * TickSeconds
    /\ now' = now + TickSeconds
    /\ UNCHANGED <<active_sessions, heap, session_lock, callerVars, balance,
                   lifeVars, hubVars>>

(***************************************************************************)
(* SessionDatabase: the sessions table, one row for each session_id.       *)
(* SQLite converts a bound value to the affinity of its column.            *)
(***************************************************************************)
\* the text of a number, as a TEXT column stores it
NumberText(v) == PyStr(v.v)

\* the strings SQLite reads as numbers
NumericTexts == {"0.0", "0.5", "1.5", "1", "5"}

\* the REAL of an integer literal
RealLiteral(n) == CASE n = "1" -> "1.0" [] n = "5" -> "5.0" [] OTHER -> n

\* a TEXT column: numbers are stored as their text
TextAffinity(v) == IF v.ty \in {"int", "float"} THEN NumberText(v) ELSE v

\* a REAL column: integers, and strings that read as numbers, are stored as reals
RealAffinity(v) ==
    CASE v.ty = "int" -> PyFloat(RealLiteral(v.v))
      [] v.ty = "str" /\ v.v \in NumericTexts -> PyFloat(RealLiteral(v.v))
      [] OTHER -> v

\* datetime.isoformat() and datetime.fromisoformat()
isoformat(t) == [iso |-> t]
fromisoformat(x) == x.iso

\* json.dumps and json.loads
JsonDumps(v) == [json |-> v]
JsonLoads(x) == x.json

\* the row that save_session binds, as the table stores it
RowOf(session, t) ==
    [user_id |-> TextAffinity(session.user_id),
     status |-> TextAffinity(session.status),
     current_task |-> TextAffinity(session.current_task),
     progress |-> RealAffinity(session.progress),
     created_at |-> isoformat(t),
     last_activity |-> isoformat(session.last_activity),
     resources_used |-> JsonDumps(session.resources_used)]

\* INSERT OR REPLACE INTO sessions: the row of this session_id is replaced,
\* every other row stays
save_session(d, session, t) == (session.session_id :> RowOf(session, t)) @@ d

\* for session in self.session_manager.get_all_sessions(): save_session(session)
RECURSIVE SaveEach(_, _, _)
SaveEach(d, sessions, t) ==
    IF sessions = {} THEN d
    ELSE LET session == CHOOSE x \in sessions : TRUE
         IN  SaveEach(save_session(d, session, t), sessions \ {session}, t)

\* the Session that load_sessions builds of a row
SessionOf(session_id, row) ==
    [session_id |-> session_id, user_id |-> row.user_id, status |-> row.status,
     current_task |-> row.current_task, progress |-> row.progress,
     last_activity |-> fromisoformat(row.last_activity),
     resources_used |-> JsonLoads(row.resources_used)]

\* SELECT * FROM sessions, a Session for each row
load_sessions(d) == {SessionOf(sid, d[sid]) : sid \in DOMAIN d}

\* sqlite3.connect, execute or commit raises sqlite3.Error (OperationalError,
\* DatabaseError) when the file cannot be opened, read or written: no
\* subclass of ImportError, the one exception load_sessions and save_session
\* catch
LoadRaises == storage = "down"
SaveRaises == storage = "down"

(***************************************************************************)
(* SessionOrchestrator and main().                                         *)
(***************************************************************************)
\* a replay that keeps the session already registered under an id
RECURSIVE Seed_keep(_, _, _, _)
Seed_keep(reg, h, sessions, rets) ==
    IF sessions = {} THEN [reg |-> reg, heap |-> h]
    ELSE LET session == CHOOSE x \in sessions : TRUE
             ref == NewRef(h)
             reg2 == reg @@ (session.session_id :> ref)
         IN  Seed_keep(reg2, Collect((ref :> session) @@ h, reg2, rets),
                       sessions \ {session}, rets)

\* for session in existing_sessions:
\*     self.session_manager.active_sessions[session.session_id] = session
RECURSIVE Seed(_, _, _, _)
Seed(reg, h, sessions, rets) ==
    IF sessions = {} THEN [reg |-> reg, heap |-> h]
    ELSE LET session == CHOOSE x \in sessions : TRUE
             ref == NewRef(h)
             reg2 == (session.session_id :> ref) @@ reg
         IN  Seed(reg2, Collect((ref :> session) @@ h, reg2, rets),
                  sessions \ {session}, rets)

\* the event loop runs one task at a time, and no call of SessionManager holds
\* an await: a task runs only between the calls of the others
LoopIdle == \A t \in Threads : pc[t] = "idle"

\* start_orchestration: the sessions of the table are put in the registry,
\* then asyncio.run(start_server()) creates the cleanup task and serves
StartOrchestration ==
    /\ phase = "ready"
    /\ IF LoadRaises
       THEN /\ phase' = "crashed"
            /\ UNCHANGED <<active_sessions, heap, bpc>>
       ELSE /\ LET seeded == Seed(active_sessions, heap, load_sessions(db), ret)
               IN  /\ active_sessions' = seeded.reg
                   /\ heap' = seeded.heap
            /\ phase' = "serving"
            /\ bpc' = "sleep"
    /\ UNCHANGED <<session_lock, now, callerVars, balance, mode, db, storage,
                   clients, conn, hpc, reply, iter, cur, disconnected_clients, got,
                   audience>>

\* shutdown(): every session of the registry is saved; the exception of a
\* save_session ends the loop, and shutdown, with it
shutdown(d) ==
    IF SaveRaises THEN d
    ELSE SaveEach(d, {heap[r] : r \in get_all_sessions(active_sessions, heap).ret.objs}, now)

\* shutdown() raises: the first save_session of its loop does
ShutdownRaises == SaveRaises /\ get_all_sessions(active_sessions, heap).ret.objs # {}

\* a KeyboardInterrupt that leaves the cleanup task as it is
Interrupt_uncancelled ==
    /\ phase = "serving"
    /\ LoopIdle
    /\ bpc # "iter"
    /\ db' = shutdown(db)
    /\ phase' = IF ShutdownRaises THEN "crashed"
                ELSE IF mode = "main" THEN "exited" ELSE "ready"
    /\ clients' = {}
    /\ conn' = [c \in ClientIds |-> "none"]
    /\ hpc' = [c \in ClientIds |-> "none"]
    /\ reply' = [c \in ClientIds |-> NoReply]
    /\ UNCHANGED <<active_sessions, heap, session_lock, now, callerVars, balance,
                   mode, storage, bpc, iter, cur, disconnected_clients, got, audience>>

\* KeyboardInterrupt in asyncio.run: the tasks are cancelled (each handler's
\* finally removes its client), then shutdown(); main() returns, or the menu
\* of run_interactive is back; an exception of shutdown() is caught by nothing
\* and ends the process
Interrupt ==
    /\ phase = "serving"
    /\ LoopIdle
    /\ bpc # "iter"
    /\ db' = shutdown(db)
    /\ phase' = IF ShutdownRaises THEN "crashed"
                ELSE IF mode = "main" THEN "exited" ELSE "ready"
    /\ clients' = {}
    /\ conn' = [c \in ClientIds |-> "none"]
    /\ hpc' = [c \in ClientIds |-> "none"]
    /\ reply' = [c \in ClientIds |-> NoReply]
    /\ bpc' = "off"
    /\ iter' = NoIter
    /\ cur' = 0
    /\ disconnected_clients' = {}
    /\ got' = {}
    /\ audience' = {}
    /\ UNCHANGED <<active_sessions, heap, session_lock, now, callerVars, balance,
                   mode, storage>>

\* choice 3 of run_interactive: a session named after the second of the clock
\* is registered for "test_user", before or between the runs of the server
TestUser == PyStr("test_user")
TestId(t) == "test_" \o ToString(t)
TestIds == (Registered \cup DOMAIN db) \ SessionIds

MenuTest ==
    /\ phase = "ready"
    /\ mode = "interactive"
    /\ Cardinality(TestIds) < MaxTests
    /\ FreeRefs # {}
    /\ LET out == register_session(active_sessions, heap, TestId(now), TestUser, now)
       IN  /\ active_sessions' = out.reg
           /\ heap' = Collect(out.heap, out.reg, ret)
           /\ balance' = balance + (IF out.ret.b THEN 1 ELSE 0)
    /\ UNCHANGED <<session_lock, now, callerVars, lifeVars, hubVars>>

\* choice 4 of run_interactive: shutdown() and the process ends
MenuExit ==
    /\ phase = "ready"
    /\ mode = "interactive"
    /\ db' = shutdown(db)
    /\ phase' = IF ShutdownRaises THEN "crashed" ELSE "exited"
    /\ UNCHANGED <<active_sessions, heap, session_lock, now, callerVars, balance,
                   mode, storage, hubVars>>

\* the program is run again: SessionOrchestrator() with an empty registry,
\* the table as the last process left it (SessionDatabase() opens the file)
NewProcess(m) ==
    /\ phase \in {"exited", "crashed"}
    /\ storage = "ok"
    /\ phase' = "ready"
    /\ mode' = m
    /\ active_sessions' = <<>>
    /\ heap' = <<>>
    /\ ret' = [t \in Threads |-> NoRet]
    /\ call' = [t \in Threads |-> NoCall]
    /\ balance' = 0
    /\ UNCHANGED <<session_lock, now, pc, db, storage, hubVars>>

\* the file of the database becomes unavailable (locked, unreadable, its
\* disk full), and available again
StorageFails ==
    /\ storage = "ok"
    /\ storage' = "down"
    /\ UNCHANGED <<storeVars, callerVars, balance, phase, mode, db, hubVars>>

StorageRecovers ==
    /\ storage = "down"
    /\ storage' = "ok"
    /\ UNCHANGED <<storeVars, callerVars, balance, phase, mode, db, hubVars>>

(***************************************************************************)
(* SessionWebSocketServer: the clients and the cleanup_sessions task.      *)
(* The tasks of the event loop take turns at their awaits: while           *)
(* broadcast_update is between two sends (bpc = "iter") no other task runs.*)
(***************************************************************************)
\* asyncio.sleep(300)
SleepSeconds == 300
\* cleanup_inactive_sessions(timeout_minutes: int = 30)
DefaultTimeout == 30

\* the iterator of a set: the size of the set when the iteration began, and
\* the slot the iteration has come to
SetIter(set) == [used |-> Cardinality(set), pos |-> 0]

\* the clients the iterator has yet to come to
Ahead == {c \in clients : c >= iter.pos}
NextClient == CHOOSE c \in Ahead : \A d \in Ahead : c <= d

\* register_client: the websocket is added to the set, and the task waits
\* for a message
Connect(c) ==
    /\ phase = "serving"
    /\ bpc # "iter"
    /\ conn[c] = "none"
    /\ c \notin disconnected_clients
    /\ bpc = "send" => c # cur
    /\ clients' = clients \cup {c}
    /\ conn' = [conn EXCEPT ![c] = "open"]
    /\ hpc' = [hpc EXCEPT ![c] = "recv"]
    /\ UNCHANGED <<storeVars, callerVars, balance, lifeVars, reply,
                   bpc, iter, cur, disconnected_clients, got, audience>>

\* the peer closes the connection
PeerClose(c) ==
    /\ bpc # "iter"
    /\ conn[c] = "open"
    /\ conn' = [conn EXCEPT ![c] = "closed"]
    /\ audience' = audience \ {c}
    /\ UNCHANGED <<storeVars, callerVars, balance, lifeVars,
                   clients, hpc, reply, bpc, iter, cur, disconnected_clients, got>>

\* register_client: "async for message in websocket" ends on the closed
\* connection, and finally removes the websocket from the set (set.remove of a
\* websocket that is no longer in it raises KeyError, which ends the task too)
HandlerExit(c) ==
    /\ bpc # "iter"
    /\ hpc[c] = "recv"
    /\ conn[c] = "closed"
    /\ clients' = clients \ {c}
    /\ hpc' = [hpc EXCEPT ![c] = "none"]
    /\ conn' = [conn EXCEPT ![c] = "none"]
    /\ reply' = [reply EXCEPT ![c] = NoReply]
    /\ UNCHANGED <<storeVars, callerVars, balance, lifeVars,
                   bpc, iter, cur, disconnected_clients, got, audience>>

\* cleanup_sessions: the sleep ends, cleanup_inactive_sessions() runs, and
\* broadcast_update begins: nothing to do with no client, or else the for
\* loop's iterator over self.clients is made
SweepFire ==
    /\ phase = "serving"
    /\ bpc = "sleep"
    /\ LoopIdle
    /\ now + SleepSeconds <= MaxSweeps * SleepSeconds
    /\ now' = now + SleepSeconds
    /\ LET out == cleanup_inactive_sessions(active_sessions, heap, DefaultTimeout, now')
       IN  /\ active_sessions' = out.reg
           /\ heap' = Collect(out.heap, out.reg, ret)
           /\ balance' = balance - Cardinality(
                 inactive_sessions(active_sessions, heap, now', DefaultTimeout))
    /\ IF clients = {}
       THEN UNCHANGED <<bpc, iter, disconnected_clients, got, audience>>
       ELSE /\ bpc' = "iter"
            /\ iter' = SetIter(clients)
            /\ disconnected_clients' = {}
            /\ got' = {}
            /\ audience' = {c \in clients : conn[c] = "open"}
    /\ UNCHANGED <<session_lock, callerVars, lifeVars, clients, conn, hpc, reply, cur>>

\* the for loop asks the iterator for the next client, and the set's size is
\* not what it was: RuntimeError ("Set changed size during iteration"), which
\* nothing catches, ends broadcast_update and the cleanup_sessions task
IterFail ==
    /\ bpc = "iter"
    /\ Cardinality(clients) # iter.used
    /\ bpc' = "dead"
    /\ UNCHANGED <<storeVars, callerVars, balance, lifeVars,
                   clients, conn, hpc, reply, iter, cur, disconnected_clients, got,
                   audience>>

\* the next client's connection is open: await client.send(message_str)
SendStart ==
    /\ bpc = "iter"
    /\ Cardinality(clients) = iter.used
    /\ Ahead # {}
    /\ conn[NextClient] = "open"
    /\ cur' = NextClient
    /\ iter' = [iter EXCEPT !.pos = NextClient + 1]
    /\ bpc' = "send"
    /\ UNCHANGED <<storeVars, callerVars, balance, lifeVars,
                   clients, conn, hpc, reply, disconnected_clients, got, audience>>

\* the next client's connection is closed: send raises ConnectionClosed
SendClosed ==
    /\ bpc = "iter"
    /\ Cardinality(clients) = iter.used
    /\ Ahead # {}
    /\ conn[NextClient] # "open"
    /\ iter' = [iter EXCEPT !.pos = NextClient + 1]
    /\ disconnected_clients' = disconnected_clients \cup {NextClient}
    /\ UNCHANGED <<storeVars, callerVars, balance, lifeVars,
                   clients, conn, hpc, reply, bpc, cur, got, audience>>

\* the send returns, or raises ConnectionClosed if the connection closed
\* while it was suspended
SendResume ==
    /\ bpc = "send"
    /\ IF conn[cur] = "open"
       THEN got' = got \cup {cur} /\ UNCHANGED disconnected_clients
       ELSE disconnected_clients' = disconnected_clients \cup {cur} /\ UNCHANGED got
    /\ bpc' = "iter"
    /\ UNCHANGED <<storeVars, callerVars, balance, lifeVars,
                   clients, conn, hpc, reply, iter, cur, audience>>

\* a broadcast that ends without taking its disconnected clients out
IterEnd_keep ==
    /\ bpc = "iter"
    /\ Cardinality(clients) = iter.used
    /\ Ahead = {}
    /\ disconnected_clients' = {}
    /\ bpc' = "sleep"
    /\ UNCHANGED <<storeVars, callerVars, balance, lifeVars,
                   clients, conn, hpc, reply, iter, cur, got, audience>>

\* the for loop ends: self.clients -= disconnected_clients, and the task
\* sleeps again
IterEnd ==
    /\ bpc = "iter"
    /\ Cardinality(clients) = iter.used
    /\ Ahead = {}
    /\ clients' = clients \ disconnected_clients
    /\ disconnected_clients' = {}
    /\ bpc' = "sleep"
    /\ UNCHANGED <<storeVars, callerVars, balance, lifeVars,
                   conn, hpc, reply, iter, cur, got, audience>>

(***************************************************************************)
(* SessionWebSocketServer.handle_message.                                  *)
(***************************************************************************)
\* the dict that get_sessions makes of a session
SessionEntry(session) ==
    [session_id |-> session.session_id, user_id |-> session.user_id,
     status |-> session.status, current_task |-> session.current_task,
     progress |-> session.progress,
     last_activity |-> isoformat(session.last_activity),
     resources_used |-> session.resources_used]

\* reading an attribute the session does not have raises AttributeError
EntryRaises(session) == SessionFields \ DOMAIN session # {}

\* what handle_message has done at its await websocket.send: the registry, the
\* heap, the result of the SessionManager call, and the frame to send (NoFrame
\* when no branch of it sends one)
Handled(out, frame) == [reg |-> out.reg, heap |-> out.heap, ret |-> out.ret, frame |-> frame]

\* the reply of the get_sessions branch, its entries in the order of the registry
get_sessions(reg, h) ==
    IF \E r \in get_all_sessions(reg, h).ret.objs : EntryRaises(h[r])
    THEN Handled(Outcome(reg, h, RetRaise("AttributeError")), ErrorFrame("AttributeError"))
    ELSE Handled(get_all_sessions(reg, h),
                 SessionsData([sid \in DOMAIN reg |-> SessionEntry(h[reg[sid]])]))

\* an update_response that reports success whatever update_session returned
UpdateFrame_always(r, session_id) == UpdateResponse(TRUE, session_id)

\* the frame of the update_session branch: the response, or the error frame of
\* "except Exception" when update_session raised
UpdateFrame(r, session_id) ==
    IF r.kind \in Returned THEN UpdateResponse(r.b, session_id) ELSE ErrorFrame(r.kind)

handle_message(reg, h, message, t) ==
    CASE message.form = "garbage" ->
            Handled(Outcome(reg, h, RetRaise("JSONDecodeError")),
                    ErrorFrame("Invalid JSON format"))
      [] message.form = "array" ->
            Handled(Outcome(reg, h, RetRaise("AttributeError")),
                    ErrorFrame("AttributeError"))
      [] message.form = "object" /\ message.command = "register_session" ->
            LET out == register_session(reg, h, message.session_id, message.user_id, t)
            IN  Handled(out, RegistrationResponse(out.ret.b, message.session_id))
      [] message.form = "object" /\ message.command = "update_session" ->
            LET out == update_session(reg, h, message.session_id, message.updates, t)
            IN  Handled(out, UpdateFrame(out.ret, message.session_id))
      [] message.form = "object" /\ message.command = "get_sessions" ->
            get_sessions(reg, h)
      [] OTHER -> Handled(Outcome(reg, h, RetNone), NoFrame)

\* register_client's "async for message in websocket" gives a message and
\* handle_message runs to its await websocket.send, or to its end when no
\* branch of it sends
Receive(c, message) ==
    /\ phase = "serving"
    /\ LoopIdle
    /\ LockFree
    /\ bpc # "iter"
    /\ hpc[c] = "recv"
    /\ conn[c] = "open"
    /\ message.command = "register_session" => FreeRefs # {}
    /\ LET out == handle_message(active_sessions, heap, message, now)
       IN  /\ active_sessions' = out.reg
           /\ heap' = Collect(out.heap, out.reg, ret)
           /\ balance' = balance + (IF message.command = "register_session"
                                       /\ out.ret = RetBool(TRUE) THEN 1 ELSE 0)
           /\ reply' = [reply EXCEPT ![c] = [of |-> message, frame |-> out.frame, n |-> 0]]
           /\ hpc' = [hpc EXCEPT ![c] = IF out.frame = NoFrame THEN "recv" ELSE "send"]
    /\ UNCHANGED <<session_lock, now, callerVars, lifeVars,
                   clients, conn, bpc, iter, cur, disconnected_clients, got, audience>>

\* the send of handle_message returns: the frame is delivered, and the handler
\* waits for its next message
ReplySend(c) ==
    /\ bpc # "iter"
    /\ hpc[c] = "send"
    /\ conn[c] = "open"
    /\ reply' = [reply EXCEPT ![c].n = @ + 1]
    /\ hpc' = [hpc EXCEPT ![c] = "recv"]
    /\ UNCHANGED <<storeVars, callerVars, balance, lifeVars,
                   clients, conn, bpc, iter, cur, disconnected_clients, got, audience>>

\* the connection closed before the send: it raises ConnectionClosed, the send
\* of "except Exception" raises it again, and register_client ends as on a
\* closed connection
ReplyClosed(c) ==
    /\ bpc # "iter"
    /\ hpc[c] = "send"
    /\ conn[c] = "closed"
    /\ clients' = clients \ {c}
    /\ hpc' = [hpc EXCEPT ![c] = "none"]
    /\ conn' = [conn EXCEPT ![c] = "none"]
    /\ reply' = [reply EXCEPT ![c] = NoReply]
    /\ UNCHANGED <<storeVars, callerVars, balance, lifeVars,
                   bpc, iter, cur, disconnected_clients, got, audience>>

(***************************************************************************)
(* The inputs.                                                             *)
(***************************************************************************)
\* the updates mappings: progress out of and in [0, 1], an unknown key
Updates ==
    {<< <<"progress", PyFloat("1.5")>> >>,
     << <<"progress", PyFloat("0.5")>>, <<"bogus", PyInt("1")>> >>}

\* timeout_minutes
Timeouts == {0, 1}

Calls ==
    {CallRegister(sid, uid) : sid \in SessionIds, uid \in UserIds}
    \cup {CallUpdate(sid, kw) : sid \in SessionIds, kw \in Updates}
    \cup {CallGet(sid) : sid \in SessionIds}
    \cup {CallGetAll}
    \cup {CallCleanup(m) : m \in Timeouts}

\* the calls of concurrent callers
CallsConc ==
    {CallRegister("s1", PyStr("u1")), CallRegister("s2", PyStr("u2")),
     CallUpdate("s1", << <<"progress", PyFloat("1.5")>> >>),
     CallGetAll, CallCleanup(0)}

\* the program as main() has constructed it, run in mode m
Constructed(m) ==
    /\ active_sessions = <<>>
    /\ heap = <<>>
    /\ session_lock = "free"
    /\ now = 0
    /\ pc = [t \in Threads |-> "idle"]
    /\ call = [t \in Threads |-> NoCall]
    /\ ret = [t \in Threads |-> NoRet]
    /\ balance = 0
    /\ phase = "ready"
    /\ mode = m
    /\ db = <<>>
    /\ storage = "ok"
    /\ clients = {}
    /\ conn = [c \in ClientIds |-> "none"]
    /\ hpc = [c \in ClientIds |-> "none"]
    /\ reply = [c \in ClientIds |-> NoReply]
    /\ bpc = "off"
    /\ iter = NoIter
    /\ cur = 0
    /\ disconnected_clients = {}
    /\ got = {}
    /\ audience = {}

\* SessionManager alone: what its callers make of it
Init == Constructed("main")

\* the program, run with or without --interactive
InitProgram == \E m \in {"main", "interactive"} : Constructed(m)

\* the thread of the event loop, which makes every call of the program
Main == "t1"

Next ==
    \/ \E c \in Calls : Call(Main, c)
    \/ Acquire(Main)
    \/ Register(Main)
    \/ Update(Main)
    \/ GetSessionStatus(Main)
    \/ GetAllSessions(Main)
    \/ Cleanup(Main)
    \/ Tick

Spec == Init /\ [][Next]_vars

\* SessionManager called from several threads at once
NextConc ==
    \/ \E t \in Threads, c \in CallsConc : Call(t, c)
    \/ \E t \in Threads : Acquire(t)
    \/ \E t \in Threads : Register(t)
    \/ \E t \in Threads : Update(t)
    \/ \E t \in Threads : GetAllSessions(t)
    \/ \E t \in Threads : Cleanup(t)
    \/ Tick

SpecConc == Init /\ [][NextConc]_vars

\* a session that is evicted and registered again, by one caller, while
\* another caller reads the registry and keeps what it was returned
Writer == "t1"
Reader == "t2"
CallsWriter ==
    {CallRegister("s1", PyStr("u1")), CallRegister("s1", PyStr("u2")),
     CallUpdate("s1", << <<"progress", PyFloat("1.5")>> >>),
     CallCleanup(0)}
CallsReader == {CallGet("s1"), CallGetAll}

NextEvict ==
    \/ \E c \in CallsWriter : Call(Writer, c)
    \/ \E c \in CallsReader : Call(Reader, c)
    \/ \E t \in Threads : Acquire(t)
    \/ Register(Writer)
    \/ Update(Writer)
    \/ Cleanup(Writer)
    \/ GetSessionStatus(Reader)
    \/ GetAllSessions(Reader)
    \/ Tick

SpecEvict == Init /\ [][NextEvict]_vars

\* the calls of the event loop's thread, among them updates that raise: in
\* the body, after a field was set, and at the call
CallsLock ==
    {CallRegister("s1", PyStr("u1")),
     CallUpdate("s1", << <<"progress", PyFloat("0.5")>> >>),
     CallUpdate("s1", << <<"progress", PyFloat("0.5")>>, <<"__class__", PyStr("x")>>,
                         <<"status", PyStr("idle")>> >>),
     CallUpdate("s1", << <<"session_id", PyStr("s2")>> >>),
     CallGet("s1"), CallGetAll, CallCleanup(0)}

NextLock ==
    \/ \E c \in CallsLock : Call(Main, c)
    \/ Acquire(Main)
    \/ Register(Main)
    \/ Update(Main)
    \/ GetSessionStatus(Main)
    \/ GetAllSessions(Main)
    \/ Cleanup(Main)
    \/ Tick

\* the thread runs: it acquires the lock that is free, and the body of a
\* method, which holds no await, runs to its end
FairLock ==
    /\ WF_vars(Acquire(Main))
    /\ WF_vars(Register(Main) \/ Update(Main) \/ GetSessionStatus(Main)
                  \/ GetAllSessions(Main) \/ Cleanup(Main))

SpecLock == Init /\ [][NextLock]_vars /\ FairLock

\* the commands handled while the program serves
CallsLife ==
    {CallRegister("s1", PyStr("u1")),
     CallUpdate("s1", << <<"status", PyStr("idle")>>, <<"progress", PyFloat("0.5")>> >>)}

\* one run of the program, from an empty registry and an empty table:
\* started, serving commands and sweeping, interrupted, and (from the menu of
\* run_interactive) started again
NextRun ==
    \/ StartOrchestration
    \/ phase = "serving" /\ \E c \in CallsLife : Call(Main, c)
    \/ Acquire(Main)
    \/ Register(Main)
    \/ Update(Main)
    \/ SweepFire
    \/ Interrupt
    \/ MenuExit

SpecRun == InitProgram /\ [][NextRun]_vars

\* the program run from the menu of run_interactive: test sessions are
\* registered before and between the runs of the server, over a short time
NextMenu ==
    \/ StartOrchestration
    \/ phase = "serving" /\ \E c \in CallsLife : Call(Main, c)
    \/ Acquire(Main)
    \/ Register(Main)
    \/ Update(Main)
    \/ Tick
    \/ Interrupt
    \/ MenuTest
    \/ MenuExit

SpecMenu == Constructed("interactive") /\ [][NextMenu]_vars

\* the program over its runs: after a run has ended, it is run again
NextLife ==
    \/ NextRun
    \/ \E m \in {"main", "interactive"} : NewProcess(m)

SpecLife == InitProgram /\ [][NextLife]_vars

\* the program serving its clients: connections, and the sweep's broadcast
NextHub ==
    \/ StartOrchestration
    \/ \E c \in ClientIds : Connect(c)
    \/ \E c \in ClientIds : PeerClose(c)
    \/ \E c \in ClientIds : HandlerExit(c)
    \/ SweepFire
    \/ IterFail
    \/ SendStart
    \/ SendClosed
    \/ SendResume
    \/ IterEnd
    \/ Interrupt
    \/ MenuExit
    \/ \E m \in {"main", "interactive"} : NewProcess(m)

SpecHub == InitProgram /\ [][NextHub]_vars

\* the program over its runs, with a database file that fails and recovers
NextDur ==
    \/ NextLife
    \/ StorageFails
    \/ StorageRecovers

SpecDur == InitProgram /\ [][NextDur]_vars

\* the messages of the clients: no JSON, no object, an unknown and a missing
\* command, registrations, updates (of user_id; of fields with __class__
\* between them; of __dict__; of session_id), get_sessions
Messages ==
    {Garbage, JsonArray,
     JsonObject("bogus", "", PyStr(""), NoKw),
     JsonObject("", "", PyStr(""), NoKw),
     JsonObject("register_session", "s1", PyStr("u1"), NoKw),
     JsonObject("register_session", "s2", PyStr("u2"), NoKw),
     JsonObject("update_session", "s1", PyStr(""), << <<"user_id", PyStr("u2")>> >>),
     JsonObject("update_session", "s1", PyStr(""),
                << <<"progress", PyFloat("0.5")>>, <<"__class__", PyStr("x")>>,
                   <<"status", PyStr("idle")>> >>),
     JsonObject("update_session", "s1", PyStr(""),
                << <<"__dict__", PyDict([session_id |-> "s2"])>> >>),
     JsonObject("update_session", "s1", PyStr(""), << <<"session_id", PyStr("s2")>> >>),
     JsonObject("get_sessions", "", PyStr(""), NoKw)}

\* the websocket that sends them
Sender == 1

\* the program serving the commands of a client, over time
NextMsg ==
    \/ StartOrchestration
    \/ Connect(Sender)
    \/ PeerClose(Sender)
    \/ HandlerExit(Sender)
    \/ \E message \in Messages : Receive(Sender, message)
    \/ ReplySend(Sender)
    \/ ReplyClosed(Sender)
    \/ Tick

SpecMsg == Init /\ [][NextMsg]_vars

\* the websockets of two clients
Senders == {1, 2}

\* the program serving the commands of two clients at once
NextReply ==
    \/ StartOrchestration
    \/ \E c \in Senders : Connect(c)
    \/ \E c \in Senders : PeerClose(c)
    \/ \E c \in Senders : HandlerExit(c)
    \/ \E c \in Senders, message \in Messages : Receive(c, message)
    \/ \E c \in Senders : ReplySend(c)
    \/ \E c \in Senders : ReplyClosed(c)

SpecReply == Init /\ [][NextReply]_vars

\* the program serving two clients, with an event loop that runs every task
\* that is ready: the sleep of the cleanup task ends, and each step of its
\* broadcast (the for loop's next client, the send that returns or raises,
\* the end of the loop) is taken
NextLoop ==
    \/ StartOrchestration
    \/ \E c \in Senders : Connect(c)
    \/ \E c \in Senders : PeerClose(c)
    \/ \E c \in Senders : HandlerExit(c)
    \/ SweepFire
    \/ IterFail
    \/ SendStart
    \/ SendClosed
    \/ SendResume
    \/ IterEnd
    \/ Interrupt

FairLoop ==
    /\ WF_vars(SweepFire)
    /\ WF_vars(IterFail)
    /\ WF_vars(SendStart)
    /\ WF_vars(SendClosed)
    /\ WF_vars(SendResume)
    /\ WF_vars(IterEnd)

SpecLoop == InitProgram /\ [][NextLoop]_vars /\ FairLoop

\* one run of the program with a client connected: the sweeps evict sessions
\* and broadcast, and the program is interrupted
NextStop ==
    \/ StartOrchestration
    \/ phase = "serving" /\ Call(Main, CallRegister("s1", PyStr("u1")))
    \/ Acquire(Main)
    \/ Register(Main)
    \/ SweepFire
    \/ Interrupt
    \/ MenuExit
    \/ Connect(Sender)
    \/ PeerClose(Sender)
    \/ HandlerExit(Sender)
    \/ IterFail
    \/ SendStart
    \/ SendClosed
    \/ SendResume
    \/ IterEnd

SpecStop == InitProgram /\ [][NextStop]_vars

(***************************************************************************)
(* The claims.                                                             *)
(***************************************************************************)
\* the step in which caller t leaves the body of method op
Returns(t, op) == InBody(t, op) /\ pc'[t] = "idle"

\* the Session object registered under sid
Record(sid) == heap[active_sessions[sid]]

\* C1: register_session of an id that is in the registry returns False and
\* leaves the registry and every record as they were: no field of the existing
\* record changes and no second record is created.
C1_RegisterExistingIsNoOp ==
    [][\A t \in Threads :
          (Returns(t, "register_session") /\ call[t].sid \in Registered)
          => /\ ret'[t] = RetBool(FALSE)
             /\ active_sessions' = active_sessions
             /\ heap' = heap]_vars

\* C1's case: a registration of a registered id, under another user, returned
\* False and the record is there under its first user.
C1_Witness ==
    /\ pc[Main] = "idle"
    /\ call[Main].op = "register_session"
    /\ ret[Main] = RetBool(FALSE)
    /\ call[Main].sid \in Registered
    /\ Record(call[Main].sid).user_id # call[Main].uid
    /\ Record(call[Main].sid).progress # PyFloat("0.0")

\* C2: update_session of an id that is not in the registry returns False,
\* creates no record and leaves every existing record as it was.
C2_UpdateMissingIsNoOp ==
    [][\A t \in Threads :
          (Returns(t, "update_session") /\ call[t].sid \notin Registered)
          => /\ ret'[t] = RetBool(FALSE)
             /\ active_sessions' = active_sessions
             /\ heap' = heap]_vars

\* C2's case: an update of an unregistered id returned False while another
\* session is registered.
C2_Witness ==
    /\ pc[Main] = "idle"
    /\ call[Main].op = "update_session"
    /\ ret[Main] = RetBool(FALSE)
    /\ call[Main].sid \notin Registered
    /\ Registered # {}

\* C3 as stated: after update_session(id, progress=p) of a registered id the
\* record's progress is p and its last_activity is strictly greater than before.
C3_LastActivityStrictlyGreater ==
    [][\A t \in Threads :
          (/\ Returns(t, "update_session")
           /\ call[t].sid \in Registered
           /\ "progress" \in KwKeys(call[t].kw))
          => /\ ret'[t] = RetBool(TRUE)
             /\ Record(call[t].sid)'.progress = KwGet(call[t].kw, "progress")
             /\ Record(call[t].sid)'.last_activity
                    > Record(call[t].sid).last_activity]_vars

\* C3 amended: every update_session of a registered id returns True and sets
\* last_activity to the clock's reading in the call, which is never earlier than
\* the value it replaces (and equal to it when the clock has not advanced); with
\* progress=p among the updates the record's progress is p, in or out of [0, 1].
C3_UpdateSetsProgressAndClock ==
    [][\A t \in Threads :
          (Returns(t, "update_session") /\ call[t].sid \in Registered)
          => /\ ret'[t] = RetBool(TRUE)
             /\ Record(call[t].sid)'.last_activity = now
             /\ Record(call[t].sid)'.last_activity
                    >= Record(call[t].sid).last_activity
             /\ "progress" \in KwKeys(call[t].kw)
                    => Record(call[t].sid)'.progress = KwGet(call[t].kw, "progress")]_vars

\* C3's case: an update with a progress out of [0, 1] returned True on a record
\* registered at an earlier reading of the clock.
C3_Witness ==
    /\ pc[Main] = "idle"
    /\ call[Main] = CallUpdate("s1", << <<"progress", PyFloat("1.5")>> >>)
    /\ ret[Main] = RetBool(TRUE)
    /\ "s1" \in Registered
    /\ Record("s1").progress = PyFloat("1.5")
    /\ Record("s1").last_activity = now
    /\ now > 0

\* a session's age in seconds
AgeSeconds(sid) == now - Record(sid).last_activity

\* C4: a sweep with timeout T removes exactly the sessions whose age is
\* strictly greater than T minutes; a session of age at most T, the age T
\* itself included, is retained with its record unchanged.
C4_SweepRemovesExactlyTheOlder ==
    [][\A t \in Threads :
          Returns(t, "cleanup_inactive_sessions")
          => /\ Registered' \subseteq Registered
             /\ \A sid \in Registered :
                   IF AgeSeconds(sid) > call[t].timeout * 60
                   THEN sid \notin Registered'
                   ELSE /\ sid \in Registered'
                        /\ active_sessions'[sid] = active_sessions[sid]
                        /\ Record(sid)' = Record(sid)]_vars

\* C4's case: a sweep is in its body with one session older than the timeout
\* and another whose age is the timeout exactly.
C4_Witness ==
    /\ InBody(Main, "cleanup_inactive_sessions")
    /\ \E old, edge \in Registered :
          /\ AgeSeconds(old) > call[Main].timeout * 60
          /\ AgeSeconds(edge) = call[Main].timeout * 60

\* C5: a register_session of an id that is not registered returns True, the id
\* is registered by it, and it removes no other id; get_all_sessions returns the
\* records of all the registered ids: with callers registering distinct ids at
\* once, in any order of their lock acquisitions, no registration is lost.
C5_ConcurrentRegistersAllSucceed ==
    [][\A t \in Threads :
          /\ (Returns(t, "register_session") /\ call[t].sid \notin Registered)
             => /\ ret'[t] = RetBool(TRUE)
                /\ Registered' = Registered \cup {call[t].sid}
                /\ \A sid \in Registered : active_sessions'[sid] = active_sessions[sid]
          /\ Returns(t, "get_all_sessions")
             => /\ ret'[t].kind = "list"
                /\ {heap'[r].session_id : r \in ret'[t].objs} = Registered]_vars

\* C5's case: both callers' registrations, of distinct ids, returned True and
\* both ids are registered.
C5_Witness ==
    /\ \A t \in Threads :
          /\ pc[t] = "idle"
          /\ call[t].op = "register_session"
          /\ ret[t] = RetBool(TRUE)
    /\ call["t1"].sid # call["t2"].sid
    /\ Registered = {call["t1"].sid, call["t2"].sid}

\* C6 as stated: the number of sessions that get_all_sessions returns is the
\* number of register_session calls that returned True less the number of
\* sessions that sweeps removed, in a run that began with an empty store.
C6_CountIsRegisteredLessEvicted ==
    Cardinality(get_all_sessions(active_sessions, heap).ret.objs) = balance

\* C7 as stated: when a sweep's broadcast is over, every client that was
\* connected from its beginning to its end has been sent the event.
C7_BroadcastReachesAllWhoStay ==
    bpc \in {"off", "sleep", "dead"} => audience \subseteq got

\* C8 as stated: clients connecting and disconnecting while broadcast_update
\* is suspended in a send never make its iteration fail or end the broadcast.
C8_NoIterationFailure == bpc # "dead"

\* what a new process's start_orchestration puts in its registry
Restarted == Seed(<<>>, <<>>, load_sessions(db), [t \in Threads |-> NoRet])

\* C9 as stated: once shutdown has saved the registry and the process has
\* ended, a restart's load seeds the registry with the session_ids that were
\* in it at shutdown, each with the status and progress it had.
C9_RestartReproducesRegistry ==
    phase = "exited"
    => /\ DOMAIN Restarted.reg = Registered
       /\ \A sid \in Registered \cap DOMAIN Restarted.reg :
             /\ Restarted.heap[Restarted.reg[sid]].status = Record(sid).status
             /\ Restarted.heap[Restarted.reg[sid]].progress = Record(sid).progress

\* C10 as stated: the records seen through a list that get_all_sessions
\* returned do not change while the caller holds the list.
C10_ReturnedListIsSnapshot ==
    [][\A t \in Threads :
          (ret[t].kind = "list" /\ ret'[t] = ret[t])
          => \A r \in ret[t].objs : heap'[r] = heap[r]]_vars

\* the commands handle_message has a branch for
Recognized == {"register_session", "update_session", "get_sessions"}

\* the step in which handler c takes a message that it answers with a frame
Answers(c) == hpc[c] = "recv" /\ hpc'[c] = "send"

\* C11 as stated: a message that is a JSON object with a command other than
\* register_session, update_session and get_sessions, or with no command, is
\* answered with an error frame to its sender.
C11_UnknownCommandGetsError ==
    \A c \in ClientIds :
        (reply[c].of.form = "object" /\ reply[c].of.command \notin Recognized)
        => reply[c].frame.type = "error"

\* C12 as stated: a message that fails to parse, or whose processing raises,
\* is answered with one error frame to its sender, whose handler goes on; the
\* registry and every record are as before the message, and no other handler
\* or connection is touched.
C12_FailedMessageChangesNothing ==
    [][\A c \in ClientIds :
          (Answers(c) /\ reply'[c].frame.type = "error")
          => /\ active_sessions' = active_sessions
             /\ heap' = heap
             /\ conn' = conn
             /\ clients' = clients
             /\ \A d \in ClientIds \ {c} : hpc'[d] = hpc[d] /\ reply'[d] = reply[d]]_vars

\* C13 as stated: a failure of the database in load_sessions or save_session
\* never ends the process with an exception: start_orchestration goes on to
\* serve, and shutdown goes on through its sessions.
C13_DurabilityFailureNeverCrashes == phase # "crashed"

\* C14 as stated: while a session stays registered, no step changes the
\* user_id of its record.
C14_UserIdImmutable ==
    [][\A sid \in Registered \cap Registered' :
          (/\ active_sessions'[sid] = active_sessions[sid]
           /\ "user_id" \in DOMAIN Record(sid))
          => /\ "user_id" \in DOMAIN Record(sid)'
             /\ Record(sid)'.user_id = Record(sid).user_id]_vars

\* C15 as stated: the record registered under a key has that key as its
\* session_id, in every state.
C15_SessionIdIsKey ==
    \A sid \in Registered :
        /\ "session_id" \in DOMAIN Record(sid)
        /\ Record(sid).session_id = sid

\* C16 as stated: an update_session command leaves the record that readers
\* see either as it was, or with every field of Session named in its updates
\* set and last_activity refreshed: never with some of them set, nor with a
\* field set and last_activity as it was.
C16_UpdateIsAllOrNone ==
    [][\A c \in ClientIds, message \in Messages :
          (/\ Answers(c)
           /\ reply'[c].of = message
           /\ message.command = "update_session"
           /\ message.session_id \in Registered)
          => \/ Record(message.session_id)' = Record(message.session_id)
             \/ /\ \A key \in KwKeys(message.updates) \cap SessionFields :
                       /\ key \in DOMAIN Record(message.session_id)'
                       /\ Record(message.session_id)'[key] = KwGet(message.updates, key)
                /\ Record(message.session_id)'.last_activity = now]_vars

\* C18 as stated: the reply to get_sessions lists the sessions of the registry
\* at the call, one entry for each with the values its record has.
C18_GetSessionsListsRegistry ==
    [][\A c \in ClientIds :
          (Answers(c) /\ reply'[c].of.command = "get_sessions")
          => /\ reply'[c].frame.type = "sessions_data"
             /\ DOMAIN reply'[c].frame.sessions = Registered
             /\ \A sid \in Registered :
                   reply'[c].frame.sessions[sid] = SessionEntry(Record(sid))]_vars

\* the frame handle_message sends when the branch of a command returns
ResponseType(command) ==
    CASE command = "register_session" -> "registration_response"
      [] command = "update_session" -> "update_response"
      [] command = "get_sessions" -> "sessions_data"

\* C17 as stated: a register_session, update_session or get_sessions command
\* that its handler is done with was answered with one frame, of the type
\* registration_response, update_response or sessions_data.
C17_CommandsGetTheirResponse ==
    \A c \in ClientIds :
        (/\ hpc[c] = "recv"
         /\ reply[c].of.form = "object"
         /\ reply[c].of.command \in Recognized)
        => /\ reply[c].n = 1
           /\ reply[c].frame.type = ResponseType(reply[c].of.command)

\* C17 amended: handling one of the three commands makes one frame for the
\* connection that sent it: the command's response with the result of the
\* SessionManager call (success of register_session: the id was not
\* registered; of update_session: it was; sessions_data: the registry's
\* sessions), or an error frame when the processing raised. The frame is
\* delivered once, to that connection, if it is open at the send; no step of a
\* handler sends or changes anything of another client.
C17_OneReplyToTheRequester ==
    [][\A c \in ClientIds :
          /\ \A message \in Messages :
                (/\ Answers(c)
                 /\ reply'[c].of = message
                 /\ message.command \in Recognized)
                => /\ reply'[c].n = 0
                   /\ reply'[c].frame.type \in {ResponseType(message.command), "error"}
                   /\ message.command = "register_session"
                         => reply'[c].frame =
                               RegistrationResponse(message.session_id \notin Registered,
                                                    message.session_id)
                   /\ reply'[c].frame.type = "update_response"
                         => reply'[c].frame =
                               UpdateResponse(message.session_id \in Registered,
                                              message.session_id)
                   /\ reply'[c].frame.type = "sessions_data"
                         => /\ DOMAIN reply'[c].frame.sessions = Registered
                            /\ \A sid \in Registered :
                                  reply'[c].frame.sessions[sid] = SessionEntry(Record(sid))
          /\ (hpc[c] = "send" /\ hpc'[c] = "recv")
                => /\ conn[c] = "open"
                   /\ reply'[c] = [reply[c] EXCEPT !.n = 1]
          /\ (hpc[c] = "send" /\ hpc'[c] # hpc[c])
                => /\ got' = got
                   /\ \A d \in ClientIds \ {c} : reply'[d] = reply[d] /\ hpc'[d] = hpc[d]
          /\ Answers(c)
                => /\ got' = got
                   /\ \A d \in ClientIds \ {c} : reply'[d] = reply[d] /\ hpc'[d] = hpc[d]]_vars

\* C17's case: an update_session was answered with one update_response of
\* success true, while another client is connected and has been sent nothing.
C17_Witness ==
    /\ hpc[1] = "recv"
    /\ reply[1].of.command = "update_session"
    /\ reply[1].frame = UpdateResponse(TRUE, "s1")
    /\ reply[1].n = 1
    /\ conn[2] = "open"
    /\ hpc[2] = "recv"
    /\ reply[2] = NoReply

\* the step in which broadcast_update ends its loop and takes the
\* disconnected clients out of the set
Completes == bpc = "iter" /\ bpc' = "sleep"

\* C19 as stated: when a broadcast completes, no client whose send failed, or
\* whose connection is closed, is in the set of clients, and every client whose
\* send succeeded and whose connection is open is in it.
C19_CompletedBroadcastLeavesTheLive ==
    [][Completes
       => \A c \in ClientIds :
             /\ (c \in disconnected_clients \/ conn[c] = "closed") => c \notin clients'
             /\ (c \in got /\ conn[c] = "open") => c \in clients']_vars

\* C19 amended: when a broadcast completes, the set of clients is the set as
\* it was less the clients whose send failed: none of these is in it, and every
\* client whose send succeeded and whose handler has not ended is in it, its
\* connection open or closed (a client that disconnected after its send is
\* taken out by its own handler, when that ends).
C19_CompletedBroadcastDropsFailedSends ==
    [][Completes
       => /\ clients' = clients \ disconnected_clients
          /\ \A c \in ClientIds :
                /\ c \in disconnected_clients => c \notin clients'
                /\ (c \in got /\ hpc[c] # "none") => c \in clients']_vars

\* C19's case: a broadcast has completed; it has dropped a client whose send
\* failed (closed, its handler not yet ended) and kept one whose send
\* succeeded.
C19_Witness ==
    /\ bpc = "sleep"
    /\ \E c, d \in ClientIds :
          /\ conn[c] = "closed" /\ hpc[c] = "recv" /\ c \notin clients
          /\ d \in got /\ d \in clients /\ conn[d] = "open"

\* C20 as stated: a firing of the scheduler broadcasts sessions_cleaned to the
\* connected clients when its sweep has evicted a session, and broadcasts
\* nothing when it has evicted none.
C20_BroadcastOnlyAfterEviction ==
    [][(bpc = "sleep" /\ now' # now /\ clients # {})
       => (bpc' = "iter" <=> Registered' # Registered)]_vars

\* the step of a shutdown(): Ctrl-C while serving, or choice 4 of the menu
ShutsDown ==
    \/ phase = "serving" /\ phase' # "serving"
    \/ phase = "ready" /\ phase' = "exited"

\* C21: startup and shutdown are ordered. A client is connected, and a
\* handler exists, only while the program serves, and it serves only after
\* the rows of the table were put in the registry; when shutdown() runs, no
\* client, no handler and no cleanup task is left, and the table then holds,
\* for every session of the registry, the row of that session.
C21_StartupAndShutdownAreOrdered ==
    [][/\ (clients' # {} \/ \E c \in ClientIds : hpc'[c] # "none") => phase' = "serving"
       /\ (phase = "ready" /\ phase' = "serving") => DOMAIN db \subseteq Registered'
       /\ ShutsDown =>
             /\ clients' = {}
             /\ \A c \in ClientIds : hpc'[c] = "none"
             /\ bpc' = "off"
             /\ \A sid \in Registered :
                   /\ sid \in DOMAIN db'
                   /\ db'[sid] = RowOf(Record(sid), now)]_vars

\* caller u's update_session of sid returned True after it ran while the
\* sweep of caller t was waiting for the lock
UpdatedFirst(u, t, sid) ==
    /\ u # t
    /\ pc[u] = "idle"
    /\ call[u].op = "update_session"
    /\ call[u].sid = sid
    /\ ret[u] = RetBool(TRUE)
    /\ sid \in Registered
    /\ Record(sid).last_activity > call[t].at

\* C22 (as stated): a session whose update_session acquired the lock before
\* a sweep that was racing with it survives that sweep.
C22_UpdateFirstSurvivesTheSweep ==
    [][\A t, u \in Threads, sid \in SessionIds :
          (Returns(t, "cleanup_inactive_sessions") /\ UpdatedFirst(u, t, sid))
          => sid \in Registered']_vars

\* C22 (amended): an update_session and a sweep that race are ordered by the
\* lock. The update that runs first, whatever the age of the session,
\* returns True and sets last_activity to its reading of the clock, and the
\* session survives the sweep exactly when the sweep's own reading of the
\* clock is no more than the timeout after that; the sweep that runs first
\* removes the session that is older than the timeout, and the update that
\* finds it removed returns False and does not put it back.
C22_RaceFollowsLockOrder ==
    [][\A t, u \in Threads, sid \in SessionIds :
          /\ (Returns(u, "update_session") /\ call[u].sid = sid /\ sid \in Registered)
             => /\ ret'[u] = RetBool(TRUE)
                /\ sid \in Registered'
                /\ Record(sid)'.last_activity = now
          /\ (Returns(t, "cleanup_inactive_sessions") /\ UpdatedFirst(u, t, sid))
             => (sid \in Registered'
                 <=> now - Record(sid).last_activity <= call[t].timeout * SecondsPerMinute)
          /\ (/\ Returns(t, "cleanup_inactive_sessions")
              /\ u # t /\ pc[u] = "wait"
              /\ call[u].op = "update_session" /\ call[u].sid = sid
              /\ sid \in Registered
              /\ AgeSeconds(sid) > call[t].timeout * SecondsPerMinute)
             => sid \notin Registered'
          /\ (Returns(u, "update_session") /\ call[u].sid = sid /\ sid \notin Registered)
             => /\ ret'[u] = RetBool(FALSE)
                /\ sid \notin Registered'
                /\ active_sessions' = active_sessions]_vars

\* the update acquired the lock first, while the sweep waits for it, for a
\* session that is older than the sweep's timeout
C22_Witness ==
    \E t, u \in Threads :
       /\ InBody(u, "update_session")
       /\ pc[t] = "wait"
       /\ call[t].op = "cleanup_inactive_sessions"
       /\ call[u].sid \in Registered
       /\ AgeSeconds(call[u].sid) > call[t].timeout * SecondsPerMinute

\* C23: the cleanup task is cancelled when the program is shut down. The
\* step of a shutdown leaves no cleanup task and does not change the
\* registry; and while the program does not serve there is no cleanup task,
\* no sleep of it ends, no session leaves the registry and no client is sent
\* a broadcast.
C23_SweepTaskCancelledAtShutdown ==
    [][/\ ShutsDown =>
             /\ bpc' = "off"
             /\ active_sessions' = active_sessions
             /\ heap' = heap
       /\ phase # "serving" =>
             /\ bpc = "off"
             /\ now' = now
             /\ Registered \subseteq Registered'
             /\ got' = got]_vars

\* the program has been interrupted after a sweep had fired, with a session
\* in the registry that the shutdown has saved
C23_Witness ==
    /\ phase = "exited"
    /\ bpc = "off"
    /\ now >= SleepSeconds
    /\ "s1" \in Registered
    /\ "s1" \in DOMAIN db

\* C24: there is no soft-deleted state. The sessions a sweep finds inactive
\* are out of the registry when it returns; and for an id that is not in the
\* registry, get_session_status returns None, update_session returns False
\* and changes nothing, and register_session returns True and puts a new
\* object in the registry, with the default fields and the user_id of the
\* call; get_all_sessions returns the objects of the registry and no other.
C24_EvictedIsAbsent ==
    [][\A t \in Threads :
          /\ Returns(t, "cleanup_inactive_sessions") =>
                Registered' = Registered
                    \ inactive_sessions(active_sessions, heap, now, call[t].timeout)
          /\ (Returns(t, "get_session_status") /\ call[t].sid \notin Registered)
             => ret'[t] = RetNone
          /\ Returns(t, "get_all_sessions")
             => ret'[t] = RetList(Range(active_sessions))
          /\ (Returns(t, "update_session") /\ call[t].sid \notin Registered)
             => /\ ret'[t] = RetBool(FALSE)
                /\ active_sessions' = active_sessions
          /\ (Returns(t, "register_session") /\ call[t].sid \notin Registered)
             => /\ ret'[t] = RetBool(TRUE)
                /\ active_sessions'[call[t].sid] \notin DOMAIN heap
                /\ Record(call[t].sid)' = NewSession(call[t].sid, call[t].uid, now)]_vars

\* a caller still holds the record of s1 that a sweep evicted (of user u1,
\* progress 1.5), and s1 has been registered again for u2: the registry has a
\* new object, with the default fields
C24_Witness ==
    /\ pc[Writer] = "idle"
    /\ call[Writer] = CallRegister("s1", PyStr("u2"))
    /\ ret[Writer] = RetBool(TRUE)
    /\ "s1" \in Registered
    /\ Record("s1") = NewSession("s1", PyStr("u2"), now)
    /\ \E r \in ret[Reader].objs :
          /\ r # active_sessions["s1"]
          /\ heap[r].session_id = "s1"
          /\ heap[r].user_id = PyStr("u1")
          /\ heap[r].progress = PyFloat("1.5")

\* C25: while the server runs the sweep loop never stops. Once a sweep has
\* fired and its broadcast has begun, whatever the clients do meanwhile, the
\* cleanup task comes back to its sleep, from which the next sweep fires
\* (or the program has stopped serving).
C25_SweepLoopNeverStops ==
    (bpc \in {"iter", "send"}) ~> (bpc = "sleep" \/ phase # "serving")

\* C26: a client is in the set of connected clients exactly while its handler
\* is between its add and its final remove, so a handler that ends finds its
\* client in the set.
C26_ClientInSetWhileHandlerRuns ==
    [][\A c \in ClientIds :
          /\ c \in clients' <=> hpc'[c] # "none"
          /\ (hpc[c] # "none" /\ hpc'[c] = "none") => c \in clients]_vars

\* C27: the store lock is held only inside a method of the store and is
\* released on every exit of it, a return or an exception; at every point
\* where the caller is between two calls (where a task can be suspended) the
\* lock is free; so the caller that waits for the lock acquires it, and the
\* caller that holds it leaves the method with the lock free.
C27_LockReleasedOnEveryPath ==
    /\ [](\A t \in Threads : session_lock = t <=> pc[t] = "held")
    /\ [](LoopIdle => LockFree)
    /\ (pc[Main] = "wait") ~> (pc[Main] = "held")
    /\ (pc[Main] = "held") ~> (pc[Main] = "idle" /\ LockFree)

\* an update_session has raised inside the with block, after it had set a
\* field of the session, and the lock is free
C27_Witness ==
    /\ pc[Main] = "idle"
    /\ call[Main].op = "update_session"
    /\ "__class__" \in KwKeys(call[Main].kw)
    /\ ret[Main] = RetRaise("TypeError")
    /\ "s1" \in Registered
    /\ Record("s1").progress = PyFloat("0.5")
    /\ Record("s1").status = PyStr("active")
    /\ LockFree

\* C28: register_session(X, ...) and update_session(X, ...) change at most
\* the record of X: every other id is in the registry after the call exactly
\* if it was before, with the same object and the same fields; and a sweep
\* changes no field of a session that it keeps.
C28_OnlyTheKeyedRecordChanges ==
    [][\A t \in Threads, sid \in SessionIds :
          /\ ((Returns(t, "register_session") \/ Returns(t, "update_session"))
                 /\ sid # call[t].sid)
             => /\ sid \in Registered' <=> sid \in Registered
                /\ sid \in Registered =>
                      /\ active_sessions'[sid] = active_sessions[sid]
                      /\ Record(sid)' = Record(sid)
          /\ (Returns(t, "cleanup_inactive_sessions") /\ sid \in Registered')
             => /\ sid \in Registered
                /\ active_sessions'[sid] = active_sessions[sid]
                /\ Record(sid)' = Record(sid)]_vars

\* s1 has been updated while s2 is registered: s2 is as its registration
\* made it, at an earlier reading of the clock
C28_Witness ==
    /\ pc[Main] = "idle"
    /\ call[Main] = CallUpdate("s1", << <<"progress", PyFloat("1.5")>> >>)
    /\ ret[Main] = RetBool(TRUE)
    /\ Registered = {"s1", "s2"}
    /\ Record("s1").progress = PyFloat("1.5")
    /\ Record("s1").last_activity = now
    /\ \E uid \in UserIds : Record("s2") = NewSession("s2", uid, 0)
    /\ now > 0

\* C29: an update_session command whose updates hold the key session_id is
\* rejected before the store is touched: the frame that answers it is an
\* error frame, and the registry and every field of every session, its
\* last_activity too, are as they were.
C29_SessionIdAmongUpdatesIsRejected ==
    [][\A c \in ClientIds, message \in Messages :
          (/\ Answers(c)
           /\ reply'[c].of = message
           /\ message.form = "object"
           /\ message.command = "update_session"
           /\ "session_id" \in KwKeys(message.updates))
          => /\ reply'[c].frame.type = "error"
             /\ active_sessions' = active_sessions
             /\ heap' = heap]_vars

\* the client was sent the error frame of such an update of s1, after the
\* clock had passed the registration of s1, and s1 is as it was registered
C29_Witness ==
    /\ hpc[Sender] = "recv"
    /\ reply[Sender].of.command = "update_session"
    /\ "session_id" \in KwKeys(reply[Sender].of.updates)
    /\ reply[Sender].frame.type = "error"
    /\ reply[Sender].n = 1
    /\ "s1" \in Registered
    /\ Record("s1") = NewSession("s1", PyStr("u1"), 0)
    /\ now > 0

\* C30: start_orchestration puts every session of the table in the registry
\* under its session_id by assignment. After its load step every id of the
\* table maps to the Session built of its row, and not to the object that the
\* registry had under that id; the ids of the registry that are not in
\* the table keep their object and its fields; and the registry has no other
\* id.
C30_ReplayAssignsThePersisted ==
    [][(phase = "ready" /\ phase' = "serving") =>
          /\ Registered' = Registered \cup DOMAIN db
          /\ \A sid \in DOMAIN db :
                /\ Record(sid)' = SessionOf(sid, db[sid])
                /\ sid \in Registered => active_sessions'[sid] # active_sessions[sid]
          /\ \A sid \in Registered \ DOMAIN db :
                /\ active_sessions'[sid] = active_sessions[sid]
                /\ Record(sid)' = Record(sid)]_vars

\* the program serves after a start from the menu: a test session that was
\* registered at the menu, and is in no row, is in the registry, and s1,
\* which the registry held when the table was loaded, is as its row
C30_Witness ==
    /\ phase = "serving"
    /\ Registered \ (DOMAIN db \cup SessionIds) # {}
    /\ "s1" \in Registered
    /\ "s1" \in DOMAIN db
    /\ Record("s1") = SessionOf("s1", db["s1"])
    /\ Record("s1").status = PyStr("idle")

====
